---- MODULE Spec2Model ----
(***************************************************************************)
(* Model of dashboard.py: the Streamlit script of the HealthKart           *)
(* influencer dashboard.  One run of the script is a render; the script is *)
(* re-run from its first line on every user interaction.  load_data is     *)
(* memoised by st.cache_data for the lifetime of the process.              *)
(*                                                                         *)
(* Tables (DataFrames) are records [none, cols, rows]: cols is the set of  *)
(* column names, rows the sequence of rows; none marks Python's None.      *)
(* Numbers are exact: ROAS values are rationals <<n, d>>, where <<1, 0>>   *)
(* is inf and <<0, 0>> NaN, as pandas' float division yields them.         *)
(***************************************************************************)
EXTENDS Integers, Sequences, FiniteSets, TLC

VARIABLES
    disk,                 \* per CSV file: "ok", "absent" or "bad" (unparsable)
    data,                 \* the contents of the four CSV files
    cache,                \* st.cache_data's entry for load_data: <<>> or <<result>>
    pc,                   \* position of the script run
    influencers, posts, tracking, payouts, error,   \* line 31
    platform_filter, category_filter, date_range,   \* sidebar widgets
    filtered_influencers, metrics, top_influencers,
    merged, roas_summary, campaign_summary, name_col,
    payout, exports,
    ui,                   \* st.error / st.warning / st.info messages of this run
    prev                  \* what the previous completed run rendered

vars == <<disk, data, cache, pc, influencers, posts, tracking, payouts, error,
          platform_filter, category_filter, date_range,
          filtered_influencers, metrics, top_influencers,
          merged, roas_summary, campaign_summary, name_col,
          payout, exports, ui, prev>>

----------------------------------------------------------------------------
(* Bounds of the input data *)

MaxTrack == 2      \* rows of tracking_data.csv
MaxInf == 2        \* rows of influencers.csv
MaxPay == 2        \* rows of payouts.csv

(* dashboard.py:164 "Assuming cost per order is 100" *)
CostPerOrder == 100

(* .head(10) at dashboard.py:123 / 195 / 204 / 239 / 248 / 256 *)
HeadRows == 10

----------------------------------------------------------------------------
(* Generic helpers *)

Files == <<"influencers.csv", "posts.csv", "tracking_data.csv", "payouts.csv">>

None == [none |-> TRUE, cols |-> {}, rows |-> <<>>]

Table(c, r) == [none |-> FALSE, cols |-> c, rows |-> r]

Unset == <<>>      \* a name the script run has not bound (yet)

SeqUpTo(n, S) == UNION {[1..k -> S] : k \in 0..n}

RECURSIVE SumSeq(_)
SumSeq(s) == IF s = <<>> THEN 0 ELSE Head(s) + SumSeq(Tail(s))

Col(rows, f) == [k \in 1..Len(rows) |-> rows[k][f]]

Take(s, n) == IF Len(s) <= n THEN s ELSE SubSeq(s, 1, n)

RECURSIVE Gcd(_, _)
Gcd(a, b) == IF b = 0 THEN a ELSE Gcd(b, a % b)

Rat(n, d) ==
    IF d = 0 THEN <<(IF n = 0 THEN 0 ELSE 1), 0>>
    ELSE LET g == Gcd(n, d) IN <<n \div g, d \div g>>

RatAdd(a, b) == Rat(a[1] * b[2] + b[1] * a[2], a[2] * b[2])

RatGt(a, b) == a[1] * b[2] > b[1] * a[2]

RECURSIVE RatSum(_)
RatSum(s) == IF s = <<>> THEN <<0, 1>> ELSE RatAdd(Head(s), RatSum(Tail(s)))

RatMean(s) == LET t == RatSum(s) IN Rat(t[1], t[2] * Len(s))

(* DataFrame.sort_values(by=key, ascending=False) over rows paired with    *)
(* their keys <<key, row>>, keys being rationals: inserting each row       *)
(* behind the rows that are not smaller keeps equal keys in input order.   *)
RECURSIVE InsertDesc(_, _)
InsertDesc(sorted, kr) ==
    IF sorted = <<>> THEN <<kr>>
    ELSE IF RatGt(kr[1], Head(sorted)[1]) THEN <<kr>> \o sorted
         ELSE <<Head(sorted)>> \o InsertDesc(Tail(sorted), kr)

RECURSIVE SortPairsDesc(_)
SortPairsDesc(krs) ==
    IF krs = <<>> THEN <<>>
    ELSE InsertDesc(SortPairsDesc(SubSeq(krs, 1, Len(krs) - 1)), krs[Len(krs)])

sort_values_desc(rows, keys) ==
    LET s == SortPairsDesc([k \in 1..Len(rows) |-> <<keys[k], rows[k]>>])
    IN [k \in 1..Len(s) |-> s[k][2]]

RECURSIVE SortedIds(_)
SortedIds(S) ==
    IF S = {} THEN <<>>
    ELSE LET m == CHOOSE x \in S : \A y \in S : x <= y
         IN <<m>> \o SortedIds(S \ {m})

----------------------------------------------------------------------------
(* The contents of the CSV files.  Rows carry every field of their table;  *)
(* a field counts only when its column is in cols.                         *)

NaN == "NaN"       \* an empty CSV cell of a text column

InfRow(id, plat, cat, fc) ==
    [influencer_id |-> id, username |-> "user", name |-> "name",
     platform |-> plat, category |-> cat, follower_count |-> fc]

TrackRow(id, rev, ord, d) ==
    [influencer_id |-> id, revenue |-> rev, orders |-> ord,
     date |-> d, campaign_date |-> d]

PostRow(pid, id) == [post_id |-> pid, influencer_id |-> id]

PayRow(id, amount, st) == [influencer_id |-> id, total_payout |-> amount, status |-> st]

ParsableDates == {"2024-01-01", "2024-02-01"}

TrackRows ==
    {TrackRow(1, 500, 5, "2024-01-01"), TrackRow(1, 300, 0, "2024-02-01"),
     TrackRow(1, 300, 5, "not-a-date"), TrackRow(2, 500, 0, "2024-01-01"),
     TrackRow(2, 0, 5, "2024-02-01"),   TrackRow(3, 700, 2, "2024-01-01")}

TrackFull == {"influencer_id", "revenue", "orders"}

FixedTrackRows ==
    <<TrackRow(1, 500, 5, "2024-01-01"), TrackRow(1, 300, 0, "2024-02-01"),
      TrackRow(2, 300, 5, "not-a-date")>>

(* Tables with a date column keep one parsable date: st.date_input is not  *)
(* given NaT bounds.                                                       *)
TrackingTables ==
    {Table(TrackFull \cup {"date"}, r) : r \in
        {q \in SeqUpTo(MaxTrack, TrackRows) :
            \E k \in 1..Len(q) : q[k].date \in ParsableDates}}
    \cup {Table(TrackFull, <<>>),
          Table(TrackFull, FixedTrackRows),
          Table(TrackFull \cup {"campaign_date"}, FixedTrackRows),
          Table({"influencer_id", "orders", "date"}, FixedTrackRows),
          Table({"influencer_id", "revenue"}, FixedTrackRows),
          Table({"revenue", "orders", "date"}, FixedTrackRows)}

InfluencerTables ==
    {Table({"influencer_id", "username", "platform", "follower_count"},
           <<InfRow(1, "Instagram", NaN, 1000), InfRow(2, "Instagram", NaN, 5000)>>),
     Table({"influencer_id", "name"},
           <<InfRow(1, NaN, NaN, 0), InfRow(1, NaN, NaN, 0)>>),
     Table({"influencer_id", "follower_count"},
           <<InfRow(1, NaN, NaN, 1000), InfRow(2, NaN, NaN, 5000)>>),
     Table({"username", "name"}, <<InfRow(1, NaN, NaN, 0)>>)}

PostTables ==
    {Table({"post_id", "influencer_id"}, <<>>),
     Table({"post_id", "influencer_id"},
           <<PostRow(1, 1), PostRow(2, 1), PostRow(3, 2)>>),
     Table({"post_id"}, <<PostRow(1, 1)>>)}

DefaultPayouts ==
    Table({"influencer_id", "total_payout", "status"},
          <<PayRow(1, 1000, "pending"), PayRow(2, 2000, "paid")>>)

(* influencers.csv for the filter specification: every short sequence of   *)
(* platform/category cells, with or without either column.                 *)
PlatCat == {<<"Instagram", "Fitness">>, <<"YouTube", "Food">>,
            <<"Instagram", "Food">>, <<NaN, "Fitness">>}

FilterInfluencerTables ==
    {Table({"influencer_id", "username", "follower_count"} \cup c,
           [k \in 1..Len(q) |-> InfRow(k, q[k][1], q[k][2], 1000 * k)]) :
        c \in SUBSET {"platform", "category"}, q \in SeqUpTo(MaxInf, PlatCat)}

FilterTracking == Table(TrackFull, FixedTrackRows)

FilterPosts == Table({"post_id", "influencer_id"}, <<PostRow(1, 1)>>)

(* payouts.csv for the payout specification *)
PayRows ==
    {PayRow(i, a, st) : i \in {1}, a \in {500, 1000},
                        st \in {"pending", "paid", "Paid", "failed"}}

PayoutTables ==
    {Table(c, r) : c \in {{"influencer_id", "total_payout", "status"},
                          {"influencer_id", "total_payout"},
                          {"influencer_id", "status"}},
                   r \in SeqUpTo(MaxPay, PayRows)}

SmallInfluencers ==
    Table({"influencer_id", "username", "platform", "follower_count"},
          <<InfRow(1, "Instagram", NaN, 1000)>>)

Dataset(i, p, t, y) == [influencers |-> i, posts |-> p, tracking |-> t, payouts |-> y]

----------------------------------------------------------------------------
(* Loader: dashboard.py:17-28 *)

LoadError(kind, f) == [kind |-> kind, file |-> f]

(* The four pd.read_csv calls run in order; the first that raises decides  *)
(* the except branch: FileNotFoundError for an absent file, any other      *)
(* exception for an unparsable one.                                        *)
(* A loader that hands back the tables it had read before the failure *)
load_data_partial ==
    LET failing == {k \in 1..4 : disk[Files[k]] # "ok"}
        first == IF failing = {} THEN 5 ELSE CHOOSE x \in failing : \A y \in failing : x <= y
    IN [influencers |-> IF first > 1 THEN data.influencers ELSE None,
        posts |-> IF first > 2 THEN data.posts ELSE None,
        tracking |-> IF first > 3 THEN data.tracking ELSE None,
        payouts |-> IF first > 4 THEN data.payouts ELSE None,
        error |-> IF first = 5 THEN <<>>
                  ELSE <<LoadError(IF disk[Files[first]] = "absent"
                                   THEN "File not found"
                                   ELSE "Error loading data", Files[first])>>]

load_data ==
    LET failing == {k \in 1..4 : disk[Files[k]] # "ok"}
    IN IF failing = {}
       THEN [influencers |-> data.influencers, posts |-> data.posts,
             tracking |-> data.tracking, payouts |-> data.payouts, error |-> <<>>]
       ELSE LET k == CHOOSE x \in failing : \A y \in failing : x <= y
            IN [influencers |-> None, posts |-> None, tracking |-> None,
                payouts |-> None,
                error |-> <<LoadError(IF disk[Files[k]] = "absent"
                                      THEN "File not found"
                                      ELSE "Error loading data", Files[k])>>]

(* @st.cache_data: the first call runs load_data and stores what it        *)
(* returned, whatever it is; later calls return a copy of the stored value *)
(* without running it.                                                     *)
cached_load_data == IF cache = <<>> THEN load_data ELSE cache[1]

----------------------------------------------------------------------------
(* Sidebar widgets: dashboard.py:45-78 *)

(* influencers[col].dropna().unique() *)
unique_options(t, c) == {t.rows[k][c] : k \in 1..Len(t.rows)} \ {NaN}

NaT == "NaT"

(* pd.to_datetime(..., errors='coerce') on one cell *)
to_datetime(cell) ==
    IF cell \in ParsableDates \/ cell \in {"Timestamp(2024-01-01)", "Timestamp(2024-02-01)"}
    THEN CASE cell = "2024-01-01" -> "Timestamp(2024-01-01)"
           [] cell = "2024-02-01" -> "Timestamp(2024-02-01)"
           [] OTHER -> cell
    ELSE NaT

DateOrd(ts) == IF ts = "Timestamp(2024-01-01)" THEN 1 ELSE 2

has_date_col(t) == "date" \in t.cols \/ "campaign_date" \in t.cols

date_col(t) == IF "date" \in t.cols THEN "date" ELSE "campaign_date"

(* tracking[date_col] = pd.to_datetime(tracking[date_col], errors='coerce') *)
coerce_dates(t) ==
    [t EXCEPT !.rows = [k \in 1..Len(t.rows) |->
        [t.rows[k] EXCEPT ![date_col(t)] = to_datetime(t.rows[k][date_col(t)])]]]

(* Series.min() / .max() skip NaT *)
valid_dates(t) == {t.rows[k][date_col(t)] : k \in 1..Len(t.rows)} \ {NaT}

date_min(t) == CHOOSE d \in valid_dates(t) : \A e \in valid_dates(t) : DateOrd(d) <= DateOrd(e)

date_max(t) == CHOOSE d \in valid_dates(t) : \A e \in valid_dates(t) : DateOrd(d) >= DateOrd(e)

Days == {"Timestamp(2024-01-01)", "Timestamp(2024-02-01)"}

(* what st.date_input lets the user pick: a range of days inside           *)
(* [min_value, max_value]                                                  *)
date_choices(t) ==
    {<<lo, hi>> \in Days \X Days :
        /\ DateOrd(date_min(t)) <= DateOrd(lo)
        /\ DateOrd(lo) <= DateOrd(hi)
        /\ DateOrd(hi) <= DateOrd(date_max(t))}

----------------------------------------------------------------------------
(* Filter engine: dashboard.py:80-91 *)

(* df[mask]: the rows at the kept positions, in order *)
SelectRows(rows, keep) ==
    LET F[k \in 0..Len(rows)] ==
            IF k = 0 THEN <<>>
            ELSE IF k \in keep THEN Append(F[k - 1], rows[k]) ELSE F[k - 1]
    IN F[Len(rows)]

isin_platform(t, sel) ==
    [t EXCEPT !.rows = SelectRows(t.rows, {k \in 1..Len(t.rows) : t.rows[k].platform \in sel})]

isin_category(t, sel) ==
    [t EXCEPT !.rows = SelectRows(t.rows, {k \in 1..Len(t.rows) : t.rows[k].category \in sel})]

(* The platform filter without the truthiness test on the selection *)
platform_step_unguarded(inf, pf) ==
    IF "platform" \in inf.cols THEN isin_platform(inf, pf) ELSE inf

(* "if platform_filter and ..." : an empty list is falsy *)
platform_step(inf, pf) ==
    IF pf # {} /\ "platform" \in inf.cols THEN isin_platform(inf, pf) ELSE inf

category_step(t, inf, cf) ==
    IF cf # {} /\ "category" \in inf.cols THEN isin_category(t, cf) ELSE t

apply_filters(inf, pf, cf) == category_step(platform_step(inf, pf), inf, cf)

----------------------------------------------------------------------------
(* Key metrics and top influencers: dashboard.py:96-140 *)

total_reach_of(f) ==
    IF "follower_count" \in f.cols THEN <<SumSeq(Col(f.rows, "follower_count"))>> ELSE <<>>

(* Total revenue over the tracking rows of the filtered influencers only *)
total_revenue_filtered(t) ==
    IF "revenue" \in t.cols
    THEN SumSeq([k \in 1..Len(t.rows) |->
            IF \E j \in 1..Len(filtered_influencers[1].rows) :
                  filtered_influencers[1].rows[j].influencer_id = t.rows[k].influencer_id
            THEN t.rows[k].revenue ELSE 0])
    ELSE 0

total_revenue_of(t) == IF "revenue" \in t.cols THEN SumSeq(Col(t.rows, "revenue")) ELSE 0

total_orders_of(t) == IF "orders" \in t.cols THEN SumSeq(Col(t.rows, "orders")) ELSE 0

key_metrics(f, t) ==
    [total_influencers |-> Len(f.rows), total_reach |-> total_reach_of(f),
     total_revenue |-> total_revenue_of(t), total_orders |-> total_orders_of(t)]

top_influencers_of(f) ==
    IF "follower_count" \in f.cols
    THEN Take(sort_values_desc(f.rows,
                  [k \in 1..Len(f.rows) |-> <<f.rows[k].follower_count, 1>>]), HeadRows)
    ELSE Take(f.rows, HeadRows)

----------------------------------------------------------------------------
(* Join-aggregate pipeline: dashboard.py:146-211 *)

Flatten(ss) ==
    LET F[k \in 0..Len(ss)] == IF k = 0 THEN <<>> ELSE F[k - 1] \o ss[k]
    IN F[Len(ss)]

Matching(rows, id) == SelectRows(rows, {k \in 1..Len(rows) : rows[k].influencer_id = id})

(* DataFrame.merge keeps the key once and renames every other column the   *)
(* two frames share, so a shared name is no longer a column of the result. *)
merge_cols(l, r) == (l \cup r) \ ((l \cap r) \ {"influencer_id"})

(* tracking.merge(influencers, on="influencer_id", how="left") *)
merge_influencers(trows, irows) ==
    Flatten([k \in 1..Len(trows) |->
        LET m == Matching(irows, trows[k].influencer_id)
        IN IF m = <<>> THEN <<[t |-> trows[k], i |-> <<>>, p |-> <<>>]>>
           ELSE [j \in 1..Len(m) |-> [t |-> trows[k], i |-> <<m[j]>>, p |-> <<>>]]])

(* merged.merge(posts, on="influencer_id", how="left", suffixes=...) *)
merge_posts(mrows, prows) ==
    Flatten([k \in 1..Len(mrows) |->
        LET m == Matching(prows, mrows[k].t.influencer_id)
        IN IF m = <<>> THEN <<mrows[k]>>
           ELSE [j \in 1..Len(m) |-> [mrows[k] EXCEPT !.p = <<m[j]>>]]])

(* merged["revenue"] / merged["cost"]: float division, inf or NaN on a     *)
(* zero cost, never an exception                                           *)
pandas_div(rev, cost) == Rat(rev, cost)

(* np.where(cond, x, y): both x and y are computed for every row *)
np_where(cond, x, y) == IF cond THEN x ELSE y

cost_of(r) == r.t.orders * CostPerOrder

(* The division without the np.where guard *)
roas_unguarded(r) == pandas_div(r.t.revenue, cost_of(r))

roas_of(r) == np_where(cost_of(r) > 0, pandas_div(r.t.revenue, cost_of(r)), <<0, 1>>)

with_roas(mrows) ==
    [k \in 1..Len(mrows) |->
        [t |-> mrows[k].t, i |-> mrows[k].i, p |-> mrows[k].p,
         cost |-> cost_of(mrows[k]), ROAS |-> roas_of(mrows[k])]]

GroupOf(mrows, id) ==
    SelectRows(mrows, {k \in 1..Len(mrows) : mrows[k].t.influencer_id = id})

(* The aggregation with ROAS summed instead of averaged *)
roas_groupby_sum(mrows) ==
    LET ids == SortedIds({mrows[k].t.influencer_id : k \in 1..Len(mrows)})
    IN [n \in 1..Len(ids) |->
          LET g == GroupOf(mrows, ids[n])
          IN [influencer_id |-> ids[n],
              ROAS |-> RatSum(Col(g, "ROAS")),
              revenue |-> SumSeq([k \in 1..Len(g) |-> g[k].t.revenue]),
              orders |-> SumSeq([k \in 1..Len(g) |-> g[k].t.orders]),
              label |-> <<>>]]

(* merged.groupby("influencer_id").agg({ROAS: mean, revenue: sum,          *)
(* orders: sum}).reset_index(): one row per key, keys ascending            *)
roas_groupby(mrows) ==
    LET ids == SortedIds({mrows[k].t.influencer_id : k \in 1..Len(mrows)})
    IN [n \in 1..Len(ids) |->
          LET g == GroupOf(mrows, ids[n])
          IN [influencer_id |-> ids[n],
              ROAS |-> RatMean(Col(g, "ROAS")),
              revenue |-> SumSeq([k \in 1..Len(g) |-> g[k].t.revenue]),
              orders |-> SumSeq([k \in 1..Len(g) |-> g[k].t.orders]),
              label |-> <<>>]]

(* name_col = "username" if "username" in influencers.columns else "name" *)
name_col_of(inf) ==
    IF "username" \in inf.cols \/ "name" \in inf.cols
    THEN <<IF "username" \in inf.cols THEN "username" ELSE "name">>
    ELSE Unset

(* roas_summary.merge(influencers[["influencer_id", name_col]], on=...):   *)
(* an inner join                                                           *)
merge_names_inner(srows, irows, nc) ==
    Flatten([k \in 1..Len(srows) |->
        LET m == Matching(irows, srows[k].influencer_id)
        IN [j \in 1..Len(m) |-> [srows[k] EXCEPT !.label = <<m[j][nc]>>]]])

(* campaign_summary.merge(..., how="left") *)
merge_names_left(srows, irows, nc) ==
    Flatten([k \in 1..Len(srows) |->
        LET m == Matching(irows, srows[k].influencer_id)
        IN IF m = <<>> THEN <<[srows[k] EXCEPT !.label = <<NaN>>]>>
           ELSE [j \in 1..Len(m) |-> [srows[k] EXCEPT !.label = <<m[j][nc]>>]]])

PerfError == "Error in performance analysis"

NoRoasCols == "Revenue or orders data not available for ROAS calculation"

NoRoasData == "No data available for ROAS calculation"

Perf(m, r, nc, msgs) == [merged |-> m, roas_summary |-> r, name_col |-> nc, ui |-> msgs]

roas_summary_of(mrows, inf) ==
    LET g == roas_groupby(mrows)
        nc == name_col_of(inf)
        named == IF nc # Unset THEN merge_names_inner(g, inf.rows, nc[1]) ELSE g
    IN Table({"influencer_id", "ROAS", "revenue", "orders"}
                \cup (IF nc # Unset THEN {nc[1]} ELSE {}),
             sort_values_desc(named, Col(named, "ROAS")))

(* The try block.  A KeyError of either merge, and the NameError of the    *)
(* chart's name_col when no name column exists, end it in the except       *)
(* branch; what was assigned before stays assigned.                        *)
performance(trk, inf, pst) ==
    IF "influencer_id" \notin trk.cols \/ "influencer_id" \notin inf.cols
    THEN Perf(Unset, Unset, Unset, {PerfError})
    ELSE
    LET m1 == Table(merge_cols(trk.cols, inf.cols), merge_influencers(trk.rows, inf.rows))
    IN IF pst.rows # <<>> /\ "influencer_id" \notin pst.cols
       THEN Perf(<<m1>>, Unset, Unset, {PerfError})
       ELSE
       LET m2 == IF pst.rows # <<>>
                 THEN Table(merge_cols(m1.cols, pst.cols), merge_posts(m1.rows, pst.rows))
                 ELSE m1
       IN IF ~({"revenue", "orders"} \subseteq m2.cols)
          THEN Perf(<<m2>>, Unset, Unset, {NoRoasCols})
          ELSE
          LET m3 == Table(m2.cols \cup {"cost", "ROAS"}, with_roas(m2.rows))
          IN IF m3.rows = <<>>
             THEN Perf(<<m3>>, Unset, Unset, {NoRoasData})
             ELSE
             LET rs == roas_summary_of(m3.rows, inf)
                 nc == name_col_of(inf)
             IN Perf(<<m3>>, <<rs>>, nc,
                     IF Len(rs.rows) > 0 /\ nc = Unset THEN {PerfError} ELSE {})

----------------------------------------------------------------------------
(* Revenue and orders summary: dashboard.py:216-258 *)

NoCampaignCols == "Revenue or orders data not available"

campaign_groupby(trows) ==
    LET ids == SortedIds({trows[k].influencer_id : k \in 1..Len(trows)})
    IN [n \in 1..Len(ids) |->
          LET g == Matching(trows, ids[n])
          IN [influencer_id |-> ids[n],
              orders |-> SumSeq(Col(g, "orders")),
              revenue |-> SumSeq(Col(g, "revenue")),
              label |-> <<>>]]

Camp(c, nc, msgs, raised) ==
    [campaign_summary |-> c, name_col |-> nc, ui |-> msgs, raised |-> raised]

(* Nothing catches here: the KeyError of groupby("influencer_id") or of    *)
(* influencers[["influencer_id", name_col]], and the NameError of name_col *)
(* in the charts when no run of this script bound it, end the script run.  *)
campaign(trk, inf, nc0) ==
    IF ~({"revenue", "orders"} \subseteq trk.cols)
    THEN Camp(Unset, nc0, {NoCampaignCols}, FALSE)
    ELSE IF "influencer_id" \notin trk.cols
    THEN Camp(Unset, nc0, {}, TRUE)
    ELSE
    LET g == campaign_groupby(trk.rows)
        gc == {"influencer_id", "orders", "revenue"}
        nc == IF name_col_of(inf) # Unset THEN name_col_of(inf) ELSE nc0
    IN IF name_col_of(inf) # Unset /\ "influencer_id" \notin inf.cols
       THEN Camp(<<Table(gc, g)>>, nc, {}, TRUE)
       ELSE
       LET named == IF name_col_of(inf) # Unset
                    THEN merge_names_left(g, inf.rows, nc[1]) ELSE g
           cs == Table(gc \cup (IF name_col_of(inf) # Unset THEN {nc[1]} ELSE {}),
                       sort_values_desc(named,
                           [k \in 1..Len(named) |-> <<named[k].revenue, 1>>]))
       IN Camp(<<cs>>, nc, {}, Len(cs.rows) > 0 /\ nc = Unset)

----------------------------------------------------------------------------
(* Payout tracking: dashboard.py:263-289 *)

NoPayouts == "No payout data available"

(* The status match with the case of the first letter ignored *)
status_sum_nocase(pay, s) ==
    SumSeq(Col(SelectRows(pay.rows,
                   {k \in 1..Len(pay.rows) :
                       \/ pay.rows[k].status = s
                       \/ s = "paid" /\ pay.rows[k].status = "Paid"}),
               "total_payout"))

(* payouts[payouts["status"] == s]["total_payout"].sum() *)
status_sum(pay, s) ==
    SumSeq(Col(SelectRows(pay.rows, {k \in 1..Len(pay.rows) : pay.rows[k].status = s}),
               "total_payout"))

Pay(ps, pend, paid, msgs, raised) ==
    [payout_summary |-> ps, pending_amount |-> pend, paid_amount |-> paid,
     ui |-> msgs, raised |-> raised]

payout_tracking(pay) ==
    IF pay.rows = <<>> THEN Pay(Unset, Unset, Unset, {NoPayouts}, FALSE)
    ELSE IF "total_payout" \notin pay.cols THEN Pay(Unset, Unset, Unset, {}, TRUE)
    ELSE
    LET ps == [pay EXCEPT !.rows = sort_values_desc(pay.rows,
                   [k \in 1..Len(pay.rows) |-> <<pay.rows[k].total_payout, 1>>])]
    IN IF "status" \in pay.cols
       THEN Pay(<<ps>>, <<status_sum(pay, "pending")>>, <<status_sum(pay, "paid")>>, {}, FALSE)
       ELSE Pay(<<ps>>, Unset, Unset, {}, FALSE)

----------------------------------------------------------------------------
(* Export: dashboard.py:294-324 *)

Order(cols, order) == SelectRows(order, {k \in 1..Len(order) : order[k] \in cols})

Cell(r, c) == IF c \in {"username", "name"} /\ "label" \in DOMAIN r THEN r.label[1] ELSE r[c]

(* DataFrame.to_csv(index=False): the header line, then one line per row   *)
to_csv(t, order) ==
    LET h == Order(t.cols, order)
    IN <<h>> \o [k \in 1..Len(t.rows) |-> [c \in 1..Len(h) |-> Cell(t.rows[k], h[c])]]

RoasOrder == <<"influencer_id", "ROAS", "revenue", "orders", "username", "name">>

CampaignOrder == <<"influencer_id", "orders", "revenue", "username", "name">>

PayoutOrder == <<"influencer_id", "total_payout", "status">>

export_of(rs, pay, cs) ==
    [roas_summary |-> IF rs # Unset /\ rs[1].rows # <<>>
                      THEN <<to_csv(rs[1], RoasOrder)>> ELSE <<>>,
     payouts |-> IF pay.rows # <<>> THEN <<to_csv(pay, PayoutOrder)>> ELSE <<>>,
     campaign_summary |-> IF cs # Unset /\ cs[1].rows # <<>>
                          THEN <<to_csv(cs[1], CampaignOrder)>> ELSE <<>>]

----------------------------------------------------------------------------
(* The script run *)

Fresh ==
    /\ pc = "start"
    /\ influencers = None /\ posts = None /\ tracking = None /\ payouts = None
    /\ error = <<>>
    /\ platform_filter = {} /\ category_filter = {} /\ date_range = Unset
    /\ filtered_influencers = Unset /\ metrics = Unset /\ top_influencers = Unset
    /\ merged = Unset /\ roas_summary = Unset /\ campaign_summary = Unset
    /\ name_col = Unset
    /\ payout = [payout_summary |-> Unset, pending_amount |-> Unset, paid_amount |-> Unset]
    /\ exports = Unset
    /\ ui = {}

AllOk == [f \in {Files[k] : k \in 1..4} |-> "ok"]

InitWith(D, K) ==
    /\ data \in D
    /\ disk \in K
    /\ cache = <<>>
    /\ prev = Unset
    /\ Fresh

(* Pipeline inputs: every short tracking table against the influencer and  *)
(* post tables that decide the joins.                                      *)
Init ==
    InitWith({Dataset(i, p, t, DefaultPayouts) :
                 i \in InfluencerTables, p \in PostTables, t \in TrackingTables},
             {AllOk})

InitFilter ==
    InitWith({Dataset(i, FilterPosts, FilterTracking, DefaultPayouts) :
                 i \in FilterInfluencerTables}, {AllOk})

InitPayout ==
    InitWith({Dataset(SmallInfluencers, FilterPosts, FilterTracking, y) :
                 y \in PayoutTables}, {AllOk})

InitLoad ==
    InitWith({Dataset(SmallInfluencers, FilterPosts,
                      Table(TrackFull \cup {"date"}, FixedTrackRows), DefaultPayouts)},
             [{Files[k] : k \in 1..4} -> {"ok", "absent", "bad"}])

(* dashboard.py:31-36: load (through the cache), and st.stop() on an error *)
RunLoad ==
    /\ pc = "start"
    /\ LET r == cached_load_data
       IN /\ cache' = <<r>>
          /\ influencers' = r.influencers
          /\ posts' = r.posts
          /\ tracking' = r.tracking
          /\ payouts' = r.payouts
          /\ error' = r.error
          /\ IF r.error # <<>>
             THEN /\ ui' = ui \cup {r.error[1].kind, "Please ensure all CSV files"}
                  /\ pc' = "stopped"
             ELSE /\ ui' = ui
                  /\ pc' = "widgets"
    /\ UNCHANGED <<disk, data, platform_filter, category_filter, date_range,
                   filtered_influencers, metrics, top_influencers, merged,
                   roas_summary, campaign_summary, name_col, payout, exports, prev>>

(* dashboard.py:43-78: the multiselects return what the user has selected  *)
(* among the options; the date column is coerced in place.                 *)
Widgets ==
    /\ pc = "widgets"
    /\ IF "platform" \in influencers.cols
       THEN platform_filter' \in SUBSET unique_options(influencers, "platform")
       ELSE platform_filter' = {}
    /\ IF "category" \in influencers.cols
       THEN category_filter' \in SUBSET unique_options(influencers, "category")
       ELSE category_filter' = {}
    /\ IF has_date_col(tracking)
       THEN /\ tracking' = coerce_dates(tracking)
            /\ date_range' \in date_choices(tracking')
       ELSE /\ tracking' = tracking
            /\ date_range' = Unset
    /\ ui' = ui \cup (IF "platform" \in influencers.cols THEN {}
                      ELSE {"No 'platform' column found in influencers data"})
                \cup (IF "category" \in influencers.cols THEN {}
                      ELSE {"No 'category' column found in influencers data"})
    /\ pc' = "filter"
    /\ UNCHANGED <<disk, data, cache, influencers, posts, payouts, error,
                   filtered_influencers, metrics, top_influencers, merged,
                   roas_summary, campaign_summary, name_col, payout, exports, prev>>

(* dashboard.py:80-91 *)
ApplyFilters ==
    /\ pc = "filter"
    /\ filtered_influencers' = <<apply_filters(influencers, platform_filter, category_filter)>>
    /\ pc' = "metrics"
    /\ UNCHANGED <<disk, data, cache, influencers, posts, tracking, payouts, error,
                   platform_filter, category_filter, date_range, metrics,
                   top_influencers, merged, roas_summary, campaign_summary,
                   name_col, payout, exports, ui, prev>>

(* dashboard.py:94-140 *)
KeyMetrics ==
    /\ pc = "metrics"
    /\ metrics' = <<key_metrics(filtered_influencers[1], tracking)>>
    /\ top_influencers' = <<top_influencers_of(filtered_influencers[1])>>
    /\ pc' = "performance"
    /\ UNCHANGED <<disk, data, cache, influencers, posts, tracking, payouts, error,
                   platform_filter, category_filter, date_range,
                   filtered_influencers, merged, roas_summary, campaign_summary,
                   name_col, payout, exports, ui, prev>>

(* dashboard.py:143-211 *)
Performance ==
    /\ pc = "performance"
    /\ LET r == performance(tracking, influencers, posts)
       IN /\ merged' = r.merged
          /\ roas_summary' = r.roas_summary
          /\ name_col' = r.name_col
          /\ ui' = ui \cup r.ui
    /\ pc' = "campaign"
    /\ UNCHANGED <<disk, data, cache, influencers, posts, tracking, payouts, error,
                   platform_filter, category_filter, date_range,
                   filtered_influencers, metrics, top_influencers,
                   campaign_summary, payout, exports, prev>>

(* dashboard.py:214-258 *)
CampaignSummary ==
    /\ pc = "campaign"
    /\ LET r == campaign(tracking, influencers, name_col)
       IN /\ campaign_summary' = r.campaign_summary
          /\ name_col' = r.name_col
          /\ ui' = ui \cup r.ui
          /\ pc' = IF r.raised THEN "crashed" ELSE "payout"
    /\ UNCHANGED <<disk, data, cache, influencers, posts, tracking, payouts, error,
                   platform_filter, category_filter, date_range,
                   filtered_influencers, metrics, top_influencers, merged,
                   roas_summary, payout, exports, prev>>

(* dashboard.py:261-289 *)
PayoutTracking ==
    /\ pc = "payout"
    /\ LET r == payout_tracking(payouts)
       IN /\ payout' = [payout_summary |-> r.payout_summary,
                        pending_amount |-> r.pending_amount,
                        paid_amount |-> r.paid_amount]
          /\ ui' = ui \cup r.ui
          /\ pc' = IF r.raised THEN "crashed" ELSE "export"
    /\ UNCHANGED <<disk, data, cache, influencers, posts, tracking, payouts, error,
                   platform_filter, category_filter, date_range,
                   filtered_influencers, metrics, top_influencers, merged,
                   roas_summary, campaign_summary, name_col, exports, prev>>

(* dashboard.py:292-328 *)
Export ==
    /\ pc = "export"
    /\ exports' = <<export_of(roas_summary, payouts, campaign_summary)>>
    /\ pc' = "done"
    /\ UNCHANGED <<disk, data, cache, influencers, posts, tracking, payouts, error,
                   platform_filter, category_filter, date_range,
                   filtered_influencers, metrics, top_influencers, merged,
                   roas_summary, campaign_summary, name_col, payout, ui, prev>>

Ended == pc \in {"done", "stopped", "crashed"}

(* What a finished run showed, kept to compare the next run against *)
Rendered ==
    [pc |-> pc, base |-> cache, filtered_influencers |-> filtered_influencers,
     metrics |-> metrics, roas_summary |-> roas_summary,
     campaign_summary |-> campaign_summary, payout |-> payout, exports |-> exports]

ResetRun ==
    /\ pc' = "start"
    /\ influencers' = None /\ posts' = None /\ tracking' = None /\ payouts' = None
    /\ error' = <<>>
    /\ platform_filter' = {} /\ category_filter' = {} /\ date_range' = Unset
    /\ filtered_influencers' = Unset /\ metrics' = Unset /\ top_influencers' = Unset
    /\ merged' = Unset /\ roas_summary' = Unset /\ campaign_summary' = Unset
    /\ name_col' = Unset
    /\ payout' = [payout_summary |-> Unset, pending_amount |-> Unset, paid_amount |-> Unset]
    /\ exports' = Unset
    /\ ui' = {}

(* A user interaction: Streamlit runs the script again from its first      *)
(* line, in a new namespace, within the same process (the cache stays).    *)
Rerun ==
    /\ Ended
    /\ prev' = <<Rendered>>
    /\ ResetRun
    /\ UNCHANGED <<disk, data, cache>>

(* The environment, between script runs: the user repairs a file, a file   *)
(* is removed or corrupted, the process is restarted.                      *)
FixFile ==
    /\ Ended
    /\ \E f \in DOMAIN disk : disk[f] # "ok" /\ disk' = [disk EXCEPT ![f] = "ok"]
    /\ UNCHANGED <<data, cache, pc, influencers, posts, tracking, payouts, error,
                   platform_filter, category_filter, date_range,
                   filtered_influencers, metrics, top_influencers, merged,
                   roas_summary, campaign_summary, name_col, payout, exports, ui, prev>>

BreakFile ==
    /\ Ended
    /\ \E f \in DOMAIN disk, st \in {"absent", "bad"} :
          disk[f] = "ok" /\ disk' = [disk EXCEPT ![f] = st]
    /\ UNCHANGED <<data, cache, pc, influencers, posts, tracking, payouts, error,
                   platform_filter, category_filter, date_range,
                   filtered_influencers, metrics, top_influencers, merged,
                   roas_summary, campaign_summary, name_col, payout, exports, ui, prev>>

RestartProcess ==
    /\ Ended
    /\ cache' = <<>>
    /\ prev' = Unset
    /\ ResetRun
    /\ UNCHANGED <<disk, data>>

Next ==
    \/ RunLoad
    \/ Widgets
    \/ ApplyFilters
    \/ KeyMetrics
    \/ Performance
    \/ CampaignSummary
    \/ PayoutTracking
    \/ Export
    \/ Rerun

NextLoad ==
    \/ Next
    \/ FixFile
    \/ BreakFile
    \/ RestartProcess

Spec == Init /\ [][Next]_vars

SpecFilter == InitFilter /\ [][Next]_vars

SpecPayout == InitPayout /\ [][Next]_vars

SpecLoad == InitLoad /\ [][NextLoad]_vars

----------------------------------------------------------------------------
(* Properties *)

Loaded == pc # "start" /\ error = <<>>

Idx(rows) == 1..Len(rows)

RatEq(a, b) == a[1] * b[2] = b[1] * a[2]

(* The filtered rows are the rows of the base table at the positions kept, *)
(* in the base table's order: the j-th filtered row is the row at the j-th *)
(* smallest kept position.                                                 *)
FilteredIs(kept) ==
    LET f == filtered_influencers[1].rows
    IN /\ filtered_influencers[1].cols = influencers.cols
       /\ Len(f) = Cardinality(kept)
       /\ \A k \in kept : f[Cardinality({x \in kept : x <= k})] = influencers.rows[k]

NothingRendered ==
    /\ platform_filter = {} /\ category_filter = {} /\ date_range = Unset
    /\ filtered_influencers = Unset /\ metrics = Unset /\ top_influencers = Unset
    /\ merged = Unset /\ roas_summary = Unset /\ campaign_summary = Unset
    /\ payout.payout_summary = Unset /\ payout.pending_amount = Unset
    /\ payout.paid_amount = Unset /\ exports = Unset

(* C2: the loader returns either all four tables and no error, or no table *)
(* and an error; and once an error is returned the run stops at the load   *)
(* with no filter, metric, summary or export step done.                    *)
C2_LoadAllOrNothing ==
    /\ cache # <<>> =>
         \/ /\ cache[1].error = <<>>
            /\ \A t \in {cache[1].influencers, cache[1].posts,
                         cache[1].tracking, cache[1].payouts} : ~t.none
         \/ /\ cache[1].error # <<>>
            /\ \A t \in {cache[1].influencers, cache[1].posts,
                         cache[1].tracking, cache[1].payouts} : t = None
    /\ pc # "start" =>
         \/ /\ error = <<>>
            /\ ~influencers.none /\ ~posts.none /\ ~tracking.none /\ ~payouts.none
         \/ /\ error # <<>>
            /\ influencers = None /\ posts = None /\ tracking = None /\ payouts = None
            /\ pc = "stopped"
            /\ NothingRendered

C2_Witness ==
    /\ pc = "stopped"
    /\ error # <<>>
    /\ error[1].file = "tracking_data.csv"
    /\ disk["influencers.csv"] = "ok"
    /\ influencers = None

PastPerformance == pc \in {"campaign", "payout", "export", "done", "crashed"}

(* both merges have their key column *)
JoinsDone ==
    /\ "influencer_id" \in tracking.cols
    /\ "influencer_id" \in influencers.cols
    /\ posts.rows # <<>> => "influencer_id" \in posts.cols

(* C3: every row of the joined table has cost = orders * 100, and ROAS =    *)
(* revenue / cost when cost > 0 and ROAS = 0 when cost = 0; the division   *)
(* by a zero cost raises nothing and leaves no inf or NaN.                 *)
C3_RoasPerRow ==
    (Loaded /\ PastPerformance /\ JoinsDone) =>
        /\ merged # Unset
        /\ Len(merged[1].rows) >= Len(tracking.rows)
        /\ {"revenue", "orders"} \subseteq tracking.cols
              => {"revenue", "orders"} \subseteq merged[1].cols
        /\ {"revenue", "orders"} \subseteq merged[1].cols
              => {"cost", "ROAS"} \subseteq merged[1].cols
        /\ "ROAS" \in merged[1].cols => \A k \in Idx(merged[1].rows) :
             LET r == merged[1].rows[k]
             IN /\ r.cost = r.t.orders * 100
                /\ r.ROAS[2] > 0
                /\ r.cost > 0 => r.ROAS[1] * r.cost = r.t.revenue * r.ROAS[2]
                /\ r.cost = 0 => r.ROAS[1] = 0

C3_Witness ==
    /\ pc = "done"
    /\ merged # Unset
    /\ "ROAS" \in merged[1].cols
    /\ \E k \in Idx(merged[1].rows) :
          merged[1].rows[k].cost = 0 /\ merged[1].rows[k].t.revenue > 0
    /\ \E k \in Idx(merged[1].rows) :
          merged[1].rows[k].cost > 0 /\ merged[1].rows[k].ROAS = <<1, 1>>

TrackIds == {tracking.rows[k].influencer_id : k \in Idx(tracking.rows)}

Records(id) ==
    LET keep == {k \in Idx(tracking.rows) : tracking.rows[k].influencer_id = id}
    IN [n \in 1..Len(SortedIds(keep)) |-> tracking.rows[SortedIds(keep)[n]]]

RecordRoas(t) == IF t.orders > 0 THEN <<t.revenue, t.orders * 100>> ELSE <<0, 1>>

MeanRecordRoas(id) ==
    RatMean([n \in Idx(Records(id)) |-> RecordRoas(Records(id)[n])])

SummaryRows(id) ==
    {k \in Idx(roas_summary[1].rows) : roas_summary[1].rows[k].influencer_id = id}

Count(rows, id) == Cardinality({k \in Idx(rows) : rows[k].influencer_id = id})

AtLeastOne(n) == IF n = 0 THEN 1 ELSE n

(* tracking rows of one influencer_id times the rows they join to *)
FanOut(id) ==
    AtLeastOne(Count(influencers.rows, id))
      * (IF posts.rows = <<>> THEN 1 ELSE AtLeastOne(Count(posts.rows, id)))

(* C4, as claimed: for every influencer_id with tracking records, whatever  *)
(* the influencer and post tables hold, its ROAS summary row has the mean  *)
(* of the per-record ROAS, the sum of the records' revenue and the sum of  *)
(* their orders.                                                           *)
C4_SummaryOverRecords ==
    (Loaded /\ roas_summary # Unset) =>
        \A id \in TrackIds :
            /\ SummaryRows(id) # {}
            /\ \A k \in SummaryRows(id) :
                 LET row == roas_summary[1].rows[k]
                 IN /\ RatEq(row.ROAS, MeanRecordRoas(id))
                    /\ row.revenue = SumSeq(Col(Records(id), "revenue"))
                    /\ row.orders = SumSeq(Col(Records(id), "orders"))

(* C4, amended: every ROAS summary row of an influencer_id has the mean of  *)
(* the per-record ROAS over that influencer's tracking records, and as     *)
(* revenue and orders the sums over those records multiplied by the join   *)
(* fan-out: the number of influencers rows with that id (at least 1) times *)
(* the number of posts rows with that id (at least 1).  With a username or *)
(* name column the summary has one row per influencers row with that id,   *)
(* none when there is no such row; without one it has exactly one row.     *)
C4_SummaryWithFanOut ==
    (Loaded /\ roas_summary # Unset) =>
        /\ \A k \in Idx(roas_summary[1].rows) :
              roas_summary[1].rows[k].influencer_id \in TrackIds
        /\ \A id \in TrackIds :
            /\ Cardinality(SummaryRows(id))
                 = IF "username" \in influencers.cols \/ "name" \in influencers.cols
                   THEN Count(influencers.rows, id) ELSE 1
            /\ \A k \in SummaryRows(id) :
                 LET row == roas_summary[1].rows[k]
                 IN /\ RatEq(row.ROAS, MeanRecordRoas(id))
                    /\ row.revenue = FanOut(id) * SumSeq(Col(Records(id), "revenue"))
                    /\ row.orders = FanOut(id) * SumSeq(Col(Records(id), "orders"))

C4_Witness ==
    /\ pc = "done"
    /\ roas_summary # Unset
    /\ Len(Records(1)) = 2
    /\ SumSeq(Col(Records(1), "revenue")) = 800
    /\ \E k \in SummaryRows(1) :
          /\ roas_summary[1].rows[k].ROAS = <<1, 2>>
          /\ roas_summary[1].rows[k].revenue = 1600
          /\ roas_summary[1].rows[k].orders = 10

(* C5, as claimed: with revenue, orders or influencer_id missing from the   *)
(* tracking table, the summaries that need it are skipped with a message,  *)
(* and the run is never aborted: it goes on to the payouts, the export and *)
(* the footer.                                                             *)
C5_MissingColumnNeverAborts ==
    (Loaded /\ ~(TrackFull \subseteq tracking.cols)) =>
        /\ pc # "crashed"
        /\ pc = "done" =>
             /\ roas_summary = Unset
             /\ campaign_summary = Unset
             /\ ui \cap {PerfError, NoRoasCols, NoCampaignCols} # {}

SumStatus(S) ==
    SumSeq([k \in Idx(payouts.rows) |->
        IF payouts.rows[k].status \in S THEN payouts.rows[k].total_payout ELSE 0])

(* C6: the pending amount is the sum of total_payout over the rows whose    *)
(* status is exactly "pending", the paid amount the sum over the rows      *)
(* whose status is exactly "paid"; rows of any other status, "Paid"        *)
(* included, count in neither.                                             *)
C6_PayoutBuckets ==
    /\ (pc \in {"export", "done"} /\ payouts.rows # <<>> /\ "status" \in payouts.cols)
          => payout.pending_amount # Unset /\ payout.paid_amount # Unset
    /\ payout.pending_amount # Unset =>
          /\ payout.pending_amount = <<SumStatus({"pending"})>>
          /\ payout.paid_amount = <<SumStatus({"paid"})>>
          /\ payout.pending_amount[1] + payout.paid_amount[1]
               + SumStatus({"Paid", "failed"})
               = SumSeq(Col(payouts.rows, "total_payout"))

C6_Witness ==
    /\ pc = "done"
    /\ Len(payouts.rows) = 2
    /\ \E k \in Idx(payouts.rows) : payouts.rows[k].status = "Paid"
    /\ \E k \in Idx(payouts.rows) : payouts.rows[k].status = "paid"
    /\ payout.paid_amount = <<1000>>
    /\ payout.pending_amount = <<0>>
    /\ SumSeq(Col(payouts.rows, "total_payout")) = 1500

InRange(d) ==
    /\ d # NaT
    /\ DateOrd(date_range[1]) <= DateOrd(d)
    /\ DateOrd(d) <= DateOrd(date_range[2])

(* C7, as claimed: the records whose date is outside the selected range or  *)
(* did not parse do not count in the rendered totals.                      *)
C7_DateRangeFilters ==
    (Loaded /\ metrics # Unset /\ date_range # Unset
        /\ {"revenue", "orders"} \subseteq tracking.cols) =>
        /\ metrics[1].total_revenue
             = SumSeq([k \in Idx(tracking.rows) |->
                  IF InRange(tracking.rows[k][date_col(tracking)])
                  THEN tracking.rows[k].revenue ELSE 0])
        /\ metrics[1].total_orders
             = SumSeq([k \in Idx(tracking.rows) |->
                  IF InRange(tracking.rows[k][date_col(tracking)])
                  THEN tracking.rows[k].orders ELSE 0])

(* C8, as claimed: after the load the four base tables stay what the        *)
(* loader returned, through every step of every run.                       *)
C8_BaseTablesReadOnly ==
    Loaded =>
        /\ influencers = cache[1].influencers
        /\ posts = cache[1].posts
        /\ tracking = cache[1].tracking
        /\ payouts = cache[1].payouts

(* C9, as claimed: a run that starts when all four files are present and    *)
(* well-formed loads them without an error, also after an earlier run of   *)
(* the same process stopped on a load error.                               *)
C9_LoadsOnceFilesAreFixed ==
    [][(pc = "start" /\ disk = AllOk) => error' = <<>>]_vars

(* C10: two completed runs over the same base tables show the same total    *)
(* revenue, total orders, ROAS summary, revenue/orders summary, payout     *)
(* summary and exports, whatever platforms and categories each selected.   *)
C10_SelectionDoesNotReachTotals ==
    (prev # Unset /\ Ended /\ prev[1].base = cache) =>
        /\ prev[1].pc = pc
        /\ pc = "done" =>
             /\ prev[1].metrics[1].total_revenue = metrics[1].total_revenue
             /\ prev[1].metrics[1].total_orders = metrics[1].total_orders
             /\ prev[1].roas_summary = roas_summary
             /\ prev[1].campaign_summary = campaign_summary
             /\ prev[1].payout = payout
             /\ prev[1].exports = exports

C10_Witness ==
    /\ prev # Unset
    /\ pc = "done"
    /\ prev[1].pc = "done"
    /\ roas_summary # Unset
    /\ Len(prev[1].filtered_influencers[1].rows) = 2
    /\ Len(filtered_influencers[1].rows) = 1
    /\ metrics[1].total_revenue = 1100

====
